---- MODULE Spec2Model ----
(***************************************************************************)
(* Model of the JSON parser / beautifier: the App controller (text,        *)
(* parse effect, error range), the ErrorMessage position mapper and the    *)
(* JsonViewer collapsible tree.                                            *)
(*                                                                         *)
(* A text is a sequence of one-character strings; a JS index i of a text   *)
(* is the TLA+ index i + 1.                                                *)
(***************************************************************************)
EXTENDS Integers, Sequences, FiniteSets, TLC

VARIABLES
    inputText,      \* App: useState('') -- the textarea's text
    parsedJson,     \* App: useState(null) -- the parsed value, JS null when none
    error,          \* App: useState(null) -- the error message, or Null
    errorRange,     \* App: useState(null) -- {start, end}, or Null
    lineCount,      \* App: useState(1)
    effectsPending, \* a render with a new inputText has committed, its effects have not run
    collapsed,      \* JsonNode: isCollapsed of every mounted JsonNode, by tree position
    fnText,         \* argument text of the function under check
    fnMessage,      \* argument errorMessage of calculateErrorRange
    fnPosition,     \* argument position of getLineAndColumn
    fnResult,       \* the value the function returned
    fnDone          \* the function has returned

appVars == <<inputText, parsedJson, error, errorRange, lineCount, effectsPending, collapsed>>
fnVars == <<fnText, fnMessage, fnPosition, fnResult, fnDone>>
vars == <<inputText, parsedJson, error, errorRange, lineCount, effectsPending, collapsed,
          fnText, fnMessage, fnPosition, fnResult, fnDone>>

----------------------------------------------------------------------------
(* Bounds *)

\* longest text enumerated exhaustively for the pure functions
MaxLen == 4
\* largest "at position N" enumerated in messages, beyond MaxLen by design
MaxPos == 11

----------------------------------------------------------------------------
(* JS values *)

\* JS null / a function's null return
Null == [isNull |-> TRUE]

NL == "\n"
QUOTE == "\""

Max(S) == CHOOSE x \in S : \A y \in S : y <= x
Min(S) == CHOOSE x \in S : \A y \in S : x <= y

\* text[i] in JS: undefined outside 0..length-1
CharAt(text, i) == IF i >= 0 /\ i < Len(text) THEN text[i + 1] ELSE "undefined"

\* text.lastIndexOf(ch)
LastIndexOf(text, ch) ==
    LET hits == {i \in 0..(Len(text) - 1) : text[i + 1] = ch}
    IN IF hits = {} THEN -1 ELSE Max(hits)

----------------------------------------------------------------------------
(* Error messages: a message is a sequence of segments, a literal piece of  *)
(* text or a run of decimal digits.                                        *)

Lit(s) == [k |-> "lit", s |-> s, d |-> <<>>]
Num(d) == [k |-> "num", s |-> "", d |-> d]

AT_POSITION == "at position "
END_OF_INPUT == "Unexpected end of JSON input"

\* errorMessage.match(/at position (\d+)/): the digits of the first match, or Null
MatchPosition(errorMessage) ==
    LET at == {i \in 1..(Len(errorMessage) - 1) :
                  /\ errorMessage[i] = Lit(AT_POSITION)
                  /\ errorMessage[i + 1].k = "num"
                  /\ Len(errorMessage[i + 1].d) > 0}
    IN IF at = {} THEN Null
       ELSE [isNull |-> FALSE, digits |-> errorMessage[Min(at) + 1].d]

\* parseInt(digits, 10)
RECURSIVE ParseInt(_)
ParseInt(digits) ==
    IF digits = <<>> THEN 0
    ELSE 10 * ParseInt(SubSeq(digits, 1, Len(digits) - 1)) + digits[Len(digits)]

\* errorMessage.includes("Unexpected end of JSON input")
IncludesEndOfInput(errorMessage) ==
    \E i \in 1..Len(errorMessage) : errorMessage[i] = Lit(END_OF_INPUT)

----------------------------------------------------------------------------
(* App.tsx: calculateErrorRange *)

\* /\s/ over the characters of the model
IsWhitespace(c) == c \in {" ", NL, "\t", "\r"}

\* const delimiters = /[\s\{\}\[\]\(\),:"]/ ; delimiters.test(c)
delimiters(c) == IsWhitespace(c) \/ c \in {"{", "}", "[", "]", "(", ")", ",", ":", QUOTE}

\* while (start > 0 && !delimiters.test(text[start - 1])) start--
RECURSIVE ExpandStart(_, _)
ExpandStart(text, start) ==
    IF start > 0 /\ ~delimiters(CharAt(text, start - 1))
    THEN ExpandStart(text, start - 1)
    ELSE start

\* while (end < text.length && !delimiters.test(text[end])) end++
RECURSIVE ExpandEnd(_, _)
ExpandEnd(text, end) ==
    IF end < Len(text) /\ ~delimiters(CharAt(text, end))
    THEN ExpandEnd(text, end + 1)
    ELSE end

Range(s, e) == [isNull |-> FALSE, start |-> s, end |-> e]

\* RangeAt without the case of the unterminated input
RangeAt_NoEndOfInput(text, errorMessage, position) ==
    IF position < Len(text) /\ delimiters(CharAt(text, position))
    THEN Range(position, position + 1)
    ELSE LET start == ExpandStart(text, position)
             end == ExpandEnd(text, position)
         IN IF start = end /\ end < Len(text)
            THEN Range(position, position + 1)
            ELSE Range(start, end)

\* RangeAt without the loop that moves start to the left
RangeAt_NoLeftExpansion(text, errorMessage, position) ==
    IF IncludesEndOfInput(errorMessage)
    THEN LET lastNewLine == LastIndexOf(text, NL)
         IN Range(IF lastNewLine > -1 THEN lastNewLine + 1 ELSE 0, Len(text))
    ELSE IF position < Len(text) /\ delimiters(CharAt(text, position))
    THEN Range(position, position + 1)
    ELSE LET start == position
             end == ExpandEnd(text, position)
         IN IF start = end /\ end < Len(text)
            THEN Range(position, position + 1)
            ELSE Range(start, end)

\* RangeAt without the return for a delimiter at the position
RangeAt_NoDelimiterCase(text, errorMessage, position) ==
    IF IncludesEndOfInput(errorMessage)
    THEN LET lastNewLine == LastIndexOf(text, NL)
         IN Range(IF lastNewLine > -1 THEN lastNewLine + 1 ELSE 0, Len(text))
    ELSE LET start == ExpandStart(text, position)
             end == ExpandEnd(text, position)
         IN IF start = end /\ end < Len(text)
            THEN Range(position, position + 1)
            ELSE Range(start, end)

\* the part of calculateErrorRange after the position is known to be in the text
RangeAt(text, errorMessage, position) ==
    IF IncludesEndOfInput(errorMessage)
    THEN LET lastNewLine == LastIndexOf(text, NL)
         IN Range(IF lastNewLine > -1 THEN lastNewLine + 1 ELSE 0, Len(text))
    ELSE IF position < Len(text) /\ delimiters(CharAt(text, position))
    THEN Range(position, position + 1)
    ELSE LET start == ExpandStart(text, position)
             end == ExpandEnd(text, position)
         IN IF start = end /\ end < Len(text)
            THEN Range(position, position + 1)
            ELSE Range(start, end)

\* the return statement of calculateErrorRange that RangeAt leaves by
ReturnPath(text, errorMessage, position) ==
    IF IncludesEndOfInput(errorMessage) THEN "unterminated"
    ELSE IF position < Len(text) /\ delimiters(CharAt(text, position)) THEN "delimiter"
    ELSE IF ExpandStart(text, position) = ExpandEnd(text, position)
            /\ ExpandEnd(text, position) < Len(text)
    THEN "fallback"
    ELSE "expanded"

\* calculateErrorRange with the end-of-text position rejected (>= for >)
calculateErrorRange_RejectsEnd(text, errorMessage) ==
    LET positionMatch == MatchPosition(errorMessage)
    IN IF positionMatch = Null THEN Null
       ELSE LET position == ParseInt(positionMatch.digits)
            IN IF position < 0 \/ position >= Len(text) THEN Null
               ELSE RangeAt(text, errorMessage, position)

\* calculateErrorRange without the check of the position against the text
calculateErrorRange_Unchecked(text, errorMessage) ==
    LET positionMatch == MatchPosition(errorMessage)
    IN IF positionMatch = Null THEN Null
       ELSE RangeAt(text, errorMessage, ParseInt(positionMatch.digits))

calculateErrorRange(text, errorMessage) ==
    LET positionMatch == MatchPosition(errorMessage)
    IN IF positionMatch = Null THEN Null
       ELSE LET position == ParseInt(positionMatch.digits)
            IN IF position < 0 \/ position > Len(text) THEN Null
               ELSE RangeAt(text, errorMessage, position)

----------------------------------------------------------------------------
(* ErrorMessage.tsx: getLineAndColumn *)

\* the for loop: state <<line, lastLineStart>> after the iterations i .. position-1
RECURSIVE ScanLines(_, _, _, _, _)
ScanLines(text, position, i, line, lastLineStart) ==
    IF i < position
    THEN IF CharAt(text, i) = NL
         THEN ScanLines(text, position, i + 1, line + 1, i + 1)
         ELSE ScanLines(text, position, i + 1, line, lastLineStart)
    ELSE <<line, lastLineStart>>

\* the loop with lastLineStart = i for lastLineStart = i + 1
RECURSIVE ScanLines_OffByOne(_, _, _, _, _)
ScanLines_OffByOne(text, position, i, line, lastLineStart) ==
    IF i < position
    THEN IF CharAt(text, i) = NL
         THEN ScanLines_OffByOne(text, position, i + 1, line + 1, i)
         ELSE ScanLines_OffByOne(text, position, i + 1, line, lastLineStart)
    ELSE <<line, lastLineStart>>

getLineAndColumn_OffByOne(text, position) ==
    IF position > Len(text) THEN Null
    ELSE LET scan == ScanLines_OffByOne(text, position, 0, 1, 0)
             column == position - scan[2] + 1
         IN [isNull |-> FALSE, line |-> scan[1], column |-> column]

getLineAndColumn(text, position) ==
    IF position > Len(text) THEN Null
    ELSE LET scan == ScanLines(text, position, 0, 1, 0)
             column == position - scan[2] + 1
         IN [isNull |-> FALSE, line |-> scan[1], column |-> column]

----------------------------------------------------------------------------
(* JSON.parse, as App.tsx calls it: the strict JSON grammar over the        *)
(* characters of the model (whitespace, strings without escapes, unsigned  *)
(* integers, null / true / false, arrays, objects). A failure carries the  *)
(* offset of the offending character; the end of the text is reported      *)
(* without an offset.                                                      *)

Digit == <<"0", "1", "2", "3", "4", "5", "6", "7", "8", "9">>
IsDigit(c) == \E d \in 1..10 : Digit[d] = c
DigitValue(c) == (CHOOSE d \in 1..10 : Digit[d] = c) - 1

\* the decimal digits of n, as numbers
RECURSIVE Digits(_)
Digits(n) == IF n < 10 THEN <<n>> ELSE Append(Digits(n \div 10), n % 10)

\* the decimal characters of n (String(n))
RECURSIVE DecimalString(_)
DecimalString(n) == IF n < 10 THEN <<Digit[n + 1]>> ELSE Append(DecimalString(n \div 10), Digit[(n % 10) + 1])

JsNumber(n) == [t |-> "number", n |-> n]
JsString(s) == [t |-> "string", s |-> s]
JsBoolean(b) == [t |-> "boolean", b |-> b]
JsArray(items) == [t |-> "array", items |-> items]
JsObject(keys, vals) == [t |-> "object", keys |-> keys, vals |-> vals]

IsArray(v) == v # Null /\ v.t = "array"
IsObject(v) == v # Null /\ v.t = "object"

Ok(v, pos) == [ok |-> TRUE, v |-> v, pos |-> pos]
Err(at) == [ok |-> FALSE, at |-> at]

\* a canonical array index: such property names enumerate first, in numeric order
IsArrayIndex(key) ==
    /\ Len(key) > 0
    /\ \A i \in 1..Len(key) : IsDigit(key[i])
    /\ (Len(key) = 1 \/ key[1] # "0")

RECURSIVE KeyNumber(_)
KeyNumber(key) ==
    IF key = <<>> THEN 0
    ELSE 10 * KeyNumber(SubSeq(key, 1, Len(key) - 1)) + DigitValue(key[Len(key)])

InsertAt(seq, i, x) == SubSeq(seq, 1, i - 1) \o <<x>> \o SubSeq(seq, i, Len(seq))

\* obj[key] = val on the object under construction; keys are kept in the order
\* Object.keys enumerates them: array indices ascending, then the other names in
\* insertion order; a name already present keeps its place and takes the new value
SetProperty(obj, key, val) ==
    IF \E i \in 1..Len(obj.keys) : obj.keys[i] = key
    THEN LET i == CHOOSE i \in 1..Len(obj.keys) : obj.keys[i] = key
         IN JsObject(obj.keys, [obj.vals EXCEPT ![i] = val])
    ELSE IF IsArrayIndex(key)
    THEN LET before == {i \in 1..Len(obj.keys) :
                           IsArrayIndex(obj.keys[i]) /\ KeyNumber(obj.keys[i]) < KeyNumber(key)}
             at == Cardinality(before) + 1
         IN JsObject(InsertAt(obj.keys, at, key), InsertAt(obj.vals, at, val))
    ELSE JsObject(Append(obj.keys, key), Append(obj.vals, val))

IsJsonWhitespace(c) == c \in {" ", NL, "\t", "\r"}

RECURSIVE SkipWhitespace(_, _)
SkipWhitespace(text, p) ==
    IF p < Len(text) /\ IsJsonWhitespace(CharAt(text, p))
    THEN SkipWhitespace(text, p + 1)
    ELSE p

\* the characters of a string literal from p (after the opening quote)
RECURSIVE ScanString(_, _, _)
ScanString(text, p, acc) ==
    IF p >= Len(text) THEN Err(Len(text))
    ELSE LET c == CharAt(text, p)
         IN IF c = QUOTE THEN Ok(acc, p + 1)
            ELSE IF c \in {NL, "\t", "\r"} THEN Err(p)
            ELSE ScanString(text, p + 1, Append(acc, c))

RECURSIVE ScanDigits(_, _, _)
ScanDigits(text, p, n) ==
    IF p < Len(text) /\ IsDigit(CharAt(text, p))
    THEN ScanDigits(text, p + 1, 10 * n + DigitValue(CharAt(text, p)))
    ELSE Ok(JsNumber(n), p)

ParseNumber(text, p) ==
    IF CharAt(text, p) = "0"
    THEN IF IsDigit(CharAt(text, p + 1)) THEN Err(p + 1) ELSE Ok(JsNumber(0), p + 1)
    ELSE ScanDigits(text, p, 0)

\* the literal word (null, true, false) from p, its k-th character next
RECURSIVE ScanLiteral(_, _, _, _, _)
ScanLiteral(text, p, word, k, value) ==
    IF k > Len(word) THEN Ok(value, p)
    ELSE IF p >= Len(text) THEN Err(Len(text))
    ELSE IF CharAt(text, p) # word[k] THEN Err(p)
    ELSE ScanLiteral(text, p + 1, word, k + 1, value)

RECURSIVE ParseValue(_, _)
RECURSIVE ParseArrayRest(_, _, _)
RECURSIVE ParseObjectRest(_, _, _)

\* one JSON value from p, leading whitespace skipped
ParseValue(text, p0) ==
    LET p == SkipWhitespace(text, p0)
        c == CharAt(text, p)
    IN IF p >= Len(text) THEN Err(Len(text))
       ELSE IF c = QUOTE
       THEN LET r == ScanString(text, p + 1, <<>>)
            IN IF r.ok THEN Ok(JsString(r.v), r.pos) ELSE r
       ELSE IF IsDigit(c) THEN ParseNumber(text, p)
       ELSE IF c = "n" THEN ScanLiteral(text, p, <<"n", "u", "l", "l">>, 1, Null)
       ELSE IF c = "t" THEN ScanLiteral(text, p, <<"t", "r", "u", "e">>, 1, JsBoolean(TRUE))
       ELSE IF c = "f" THEN ScanLiteral(text, p, <<"f", "a", "l", "s", "e">>, 1, JsBoolean(FALSE))
       ELSE IF c = "["
       THEN LET q == SkipWhitespace(text, p + 1)
            IN IF CharAt(text, q) = "]" THEN Ok(JsArray(<<>>), q + 1)
               ELSE ParseArrayRest(text, q, <<>>)
       ELSE IF c = "{"
       THEN LET q == SkipWhitespace(text, p + 1)
            IN IF CharAt(text, q) = "}" THEN Ok(JsObject(<<>>, <<>>), q + 1)
               ELSE ParseObjectRest(text, q, JsObject(<<>>, <<>>))
       ELSE Err(p)

\* the elements of an array from p, an element expected next
ParseArrayRest(text, p, items) ==
    LET r == ParseValue(text, p)
    IN IF ~r.ok THEN r
       ELSE LET q == SkipWhitespace(text, r.pos)
                c == CharAt(text, q)
            IN IF q >= Len(text) THEN Err(Len(text))
               ELSE IF c = "," THEN ParseArrayRest(text, q + 1, Append(items, r.v))
               ELSE IF c = "]" THEN Ok(JsArray(Append(items, r.v)), q + 1)
               ELSE Err(q)

\* the members of an object from p, a member name expected next
ParseObjectRest(text, p, obj) ==
    LET q == SkipWhitespace(text, p)
    IN IF q >= Len(text) THEN Err(Len(text))
       ELSE IF CharAt(text, q) # QUOTE THEN Err(q)
       ELSE LET k == ScanString(text, q + 1, <<>>)
            IN IF ~k.ok THEN k
               ELSE LET q2 == SkipWhitespace(text, k.pos)
                    IN IF q2 >= Len(text) THEN Err(Len(text))
                       ELSE IF CharAt(text, q2) # ":" THEN Err(q2)
                       ELSE LET r == ParseValue(text, q2 + 1)
                            IN IF ~r.ok THEN r
                               ELSE LET q3 == SkipWhitespace(text, r.pos)
                                        c == CharAt(text, q3)
                                        next == SetProperty(obj, k.v, r.v)
                                    IN IF q3 >= Len(text) THEN Err(Len(text))
                                       ELSE IF c = "," THEN ParseObjectRest(text, q3 + 1, next)
                                       ELSE IF c = "}" THEN Ok(next, q3 + 1)
                                       ELSE Err(q3)

\* the message of the SyntaxError thrown for the character at offset `at`
SyntaxErrorMessage(text, at) ==
    IF at >= Len(text) THEN <<Lit(END_OF_INPUT)>>
    ELSE <<Lit("Unexpected token "), Lit(CharAt(text, at)), Lit(" in JSON "),
           Lit(AT_POSITION), Num(Digits(at))>>

\* JSON.parse(text): [ok |-> TRUE, v |-> value] or [ok |-> FALSE, message |-> e.message]
JsonParse(text) ==
    LET r == ParseValue(text, 0)
    IN IF ~r.ok THEN [ok |-> FALSE, message |-> SyntaxErrorMessage(text, r.at)]
       ELSE LET q == SkipWhitespace(text, r.pos)
            IN IF q < Len(text) THEN [ok |-> FALSE, message |-> SyntaxErrorMessage(text, q)]
               ELSE [ok |-> TRUE, v |-> r.v]

----------------------------------------------------------------------------
(* JsonViewer: JsonNode. A node instance is identified by its position: the *)
(* path of child slots from the root. A slot is the React key of the        *)
(* child's <div> together with the kind of the parent, since the JsonNode   *)
(* sits at a different child index of the <div> under an array (0) and     *)
(* under an object (2).                                                    *)

\* const keys = isArray ? [] : Object.keys(nodeData)
ObjectKeys(nodeData) == IF IsArray(nodeData) THEN <<>> ELSE nodeData.keys

\* const itemCount = isArray ? nodeData.length : keys.length
ItemCount(nodeData) ==
    IF IsArray(nodeData) THEN Len(nodeData.items)
    ELSE IF IsObject(nodeData) THEN Len(ObjectKeys(nodeData))
    ELSE 0

\* IsCollapsible without the itemCount === 0 return
IsCollapsible_IgnoresCount(nodeData) == IsArray(nodeData) \/ IsObject(nodeData)

\* typeof nodeData === 'object', not null, itemCount !== 0: the node has a toggle
IsCollapsible(nodeData) == (IsArray(nodeData) \/ IsObject(nodeData)) /\ ItemCount(nodeData) # 0

\* <div key={index}> / <div key={key}> of the i-th child (i from 1)
ChildSlot(nodeData, i) ==
    IF IsArray(nodeData) THEN [kind |-> "array", key |-> DecimalString(i - 1)]
    ELSE [kind |-> "object", key |-> ObjectKeys(nodeData)[i]]

\* item / nodeData[key] of the i-th child
ChildData(nodeData, i) ==
    IF IsArray(nodeData) THEN nodeData.items[i] ELSE nodeData.vals[i]

\* the value at a path of slots below nodeData
RECURSIVE ValueAt(_, _)
ValueAt(nodeData, path) ==
    IF path = <<>> THEN nodeData
    ELSE LET i == CHOOSE i \in 1..ItemCount(nodeData) : ChildSlot(nodeData, i) = path[1]
         IN ValueAt(ChildData(nodeData, i), Tail(path))

\* IsCollapsedAt with useState(false) for useState(indentLevel > 0)
IsCollapsedAt_StartsExpanded(old, path, indentLevel) ==
    IF path \in DOMAIN old THEN old[path] ELSE FALSE

\* useState(indentLevel > 0): a node that mounts starts collapsed below the root;
\* a node that stays mounted keeps its flag
IsCollapsedAt(old, path, indentLevel) ==
    IF path \in DOMAIN old THEN old[path] ELSE indentLevel > 0

\* one render of <JsonNode nodeData indentLevel> at `path`, the flags before the
\* render being `old`: the <<path, isCollapsed>> of every node instance mounted
\* after it. The children are rendered only by an expanded, non-empty container.
RECURSIVE JsonNode(_, _, _, _)
JsonNode(old, path, nodeData, indentLevel) ==
    LET isCollapsed == IsCollapsedAt(old, path, indentLevel)
    IN {<<path, isCollapsed>>} \cup
       (IF IsCollapsible(nodeData) /\ ~isCollapsed
        THEN UNION {JsonNode(old, Append(path, ChildSlot(nodeData, i)),
                             ChildData(nodeData, i), indentLevel + 1) :
                    i \in 1..ItemCount(nodeData)}
        ELSE {})

\* {parsedJson !== null && <JsonViewer data={parsedJson} />}: the flags of the
\* mounted nodes after a render of App with this parsedJson
JsonViewer(old, data) ==
    IF data = Null THEN <<>>
    ELSE LET nodes == JsonNode(old, <<>>, data, 0)
         IN [path \in {n[1] : n \in nodes} |-> CHOOSE c \in BOOLEAN : <<path, c>> \in nodes]

\* setIsCollapsed(prev => !prev) on the node at path, and the render it causes
ToggleCollapse(flags, data, path) ==
    JsonViewer([flags EXCEPT ![path] = ~@], data)

----------------------------------------------------------------------------
(* What JsonNode displays: the sequence of pieces of text it renders.       *)

Piece(k, v) == [k |-> k, v |-> v]
Punct(s) == Piece("punct", JsString(<<s>>))

RECURSIVE Display(_, _, _)
RECURSIVE DisplayChildren(_, _, _, _)

\* the rendered pieces of the node at path
Display(flags, path, nodeData) ==
    IF nodeData = Null THEN <<Piece("literal", Null)>>
    ELSE IF nodeData.t \in {"string", "number", "boolean"} THEN <<Piece("literal", nodeData)>>
    ELSE IF ItemCount(nodeData) = 0 THEN <<Punct(IF IsArray(nodeData) THEN "[]" ELSE "{}")>>
    ELSE LET opener == IF IsArray(nodeData) THEN "[" ELSE "{"
             closer == IF IsArray(nodeData) THEN "]" ELSE "}"
         IN IF flags[path]
            THEN <<Punct(opener), Punct("..."), Punct(closer),
                   Piece("count", JsNumber(ItemCount(nodeData))),
                   Punct(IF IsArray(nodeData) THEN "items" ELSE "keys")>>
            ELSE <<Punct(opener)>> \o DisplayChildren(flags, path, nodeData, 1) \o <<Punct(closer)>>

\* the rendered pieces of the children i .. itemCount of an expanded node
DisplayChildren(flags, path, nodeData, i) ==
    IF i > ItemCount(nodeData) THEN <<>>
    ELSE (IF IsArray(nodeData) THEN <<>>
          ELSE <<Piece("key", JsString(ObjectKeys(nodeData)[i])), Punct(": ")>>)
         \o Display(flags, Append(path, ChildSlot(nodeData, i)), ChildData(nodeData, i))
         \o (IF i < ItemCount(nodeData) THEN <<Punct(",")>> ELSE <<>>)
         \o DisplayChildren(flags, path, nodeData, i + 1)

----------------------------------------------------------------------------
(* App.tsx: the component's state, its handlers and effects *)

\* inputText.trim() === ''
IsBlank(text) == \A i \in 1..Len(text) : IsWhitespace(text[i])

ErrorOf(message) == [isNull |-> FALSE, message |-> message]

\* the three setters of the parse effect, for this inputText
ParseEffect(text) ==
    IF IsBlank(text)
    THEN [parsedJson |-> Null, error |-> Null, errorRange |-> Null]
    ELSE LET r == JsonParse(text)
         IN IF r.ok
            THEN [parsedJson |-> r.v, error |-> Null, errorRange |-> Null]
            ELSE [parsedJson |-> Null, error |-> ErrorOf(r.message),
                  errorRange |-> calculateErrorRange(text, r.message)]

\* inputText.split('\n').length
LineCount(text) == Cardinality({i \in 1..Len(text) : text[i] = NL}) + 1

----------------------------------------------------------------------------
(* The texts typed into the textarea *)

TextEmpty == <<>>
TextBlank == <<" ", NL>>
TextNull == <<"n", "u", "l", "l">>
TextNumber == <<"1">>
TextTrue == <<"t", "r", "u", "e">>
TextString == <<QUOTE, "a", QUOTE>>
TextEmptyArray == <<"[", "]">>
\* [[],{}]
TextEmptyNested == <<"[", "[", "]", ",", "{", "}", "]">>
\* [[1]]
TextNested == <<"[", "[", "1", "]", "]">>
\* [[2]]
TextNested2 == <<"[", "[", "2", "]", "]">>
\* [[1],[[2]]]
TextSiblings == <<"[", "[", "1", "]", ",", "[", "[", "2", "]", "]", "]">>
\* {"a":[1]}
TextObject == <<"{", QUOTE, "a", QUOTE, ":", "[", "1", "]", "}">>
\* {"b":1,"1":2}
TextIndexKey == <<"{", QUOTE, "b", QUOTE, ":", "1", ",", QUOTE, "1", QUOTE, ":", "2", "}">>
\* {"a":
TextUnterminated == <<"{", QUOTE, "a", QUOTE, ":">>
\* {"a": bad}
TextBadToken == <<"{", QUOTE, "a", QUOTE, ":", " ", "b", "a", "d", "}">>
\* [1,<newline>x]
TextSecondLine == <<"[", "1", ",", NL, "x", "]">>

Edits == {TextEmpty, TextBlank, TextNull, TextNumber, TextTrue, TextString, TextEmptyArray, TextEmptyNested,
          TextNested, TextNested2, TextSiblings, TextObject, TextIndexKey, TextUnterminated, TextBadToken,
          TextSecondLine}

----------------------------------------------------------------------------
(* App: actions *)

AppInit ==
    /\ inputText = <<>>
    /\ parsedJson = Null
    /\ error = Null
    /\ errorRange = Null
    /\ lineCount = 1
    /\ effectsPending = FALSE
    /\ collapsed = <<>>

FnIdle ==
    /\ fnText = <<>>
    /\ fnMessage = <<>>
    /\ fnPosition = 0
    /\ fnResult = Null
    /\ fnDone = FALSE

Init == AppInit /\ FnIdle

\* onChange of the textarea: setInputText(e.target.value) and the render it causes,
\* which still reads the parsedJson / error / errorRange of the previous effects
handleInputChange(value) ==
    /\ ~effectsPending
    /\ value # inputText
    /\ inputText' = value
    /\ collapsed' = JsonViewer(collapsed, parsedJson)
    /\ effectsPending' = TRUE
    /\ UNCHANGED <<parsedJson, error, errorRange, lineCount, fnVars>>

\* the two useEffect(..., [inputText]) callbacks after that render, and the render
\* their setters cause
RunEffects ==
    /\ effectsPending
    /\ LET r == ParseEffect(inputText)
       IN /\ parsedJson' = r.parsedJson
          /\ error' = r.error
          /\ errorRange' = r.errorRange
          /\ collapsed' = JsonViewer(collapsed, r.parsedJson)
    /\ lineCount' = LineCount(inputText)
    /\ effectsPending' = FALSE
    /\ UNCHANGED <<inputText, fnVars>>

\* onClick of the opener of the mounted, non-empty container at path
toggleCollapse(path) ==
    /\ ~effectsPending
    /\ parsedJson # Null
    /\ path \in DOMAIN collapsed
    /\ IsCollapsible(ValueAt(parsedJson, path))
    /\ collapsed' = ToggleCollapse(collapsed, parsedJson, path)
    /\ UNCHANGED <<inputText, parsedJson, error, errorRange, lineCount, effectsPending, fnVars>>

Next ==
    \/ \E value \in Edits : handleInputChange(value)
    \/ RunEffects
    \/ \E path \in DOMAIN collapsed : toggleCollapse(path)

Spec == Init /\ [][Next]_vars

----------------------------------------------------------------------------
(* The pure functions, applied to every text and message within the bounds *)

TextAlphabet == {"a", ":", NL}

BoundedTexts == UNION {[1..n -> TextAlphabet] : n \in 0..MaxLen}

Texts == BoundedTexts \cup {TextUnterminated, TextBadToken, TextSecondLine}

MessageHeads == {<<Lit("Unexpected token "), Lit("a"), Lit(" in JSON ")>>,
                 <<Lit(END_OF_INPUT), Lit(" ")>>}

MessageTails ==
    {<<>>, <<Lit(AT_POSITION)>>}
    \cup {<<Num(Digits(n))>> : n \in 0..MaxPos}
    \cup {<<Lit(AT_POSITION), Num(Digits(n))>> : n \in 0..MaxPos}

Messages == {h \o t : h \in MessageHeads, t \in MessageTails}

InitRange ==
    /\ AppInit
    /\ fnText \in Texts
    /\ fnMessage \in Messages
    /\ fnPosition = 0
    /\ fnResult = Null
    /\ fnDone = FALSE

CallCalculateErrorRange ==
    /\ ~fnDone
    /\ fnResult' = calculateErrorRange(fnText, fnMessage)
    /\ fnDone' = TRUE
    /\ UNCHANGED <<fnText, fnMessage, fnPosition, appVars>>

NextRange == CallCalculateErrorRange

SpecRange == InitRange /\ [][NextRange]_vars

InitLineColumn ==
    /\ AppInit
    /\ fnText \in Texts
    /\ fnMessage = <<>>
    /\ fnPosition \in 0..MaxPos
    /\ fnResult = Null
    /\ fnDone = FALSE

CallGetLineAndColumn ==
    /\ ~fnDone
    /\ fnResult' = getLineAndColumn(fnText, fnPosition)
    /\ fnDone' = TRUE
    /\ UNCHANGED <<fnText, fnMessage, fnPosition, appVars>>

NextLineColumn == CallGetLineAndColumn

SpecLineColumn == InitLineColumn /\ [][NextLineColumn]_vars

----------------------------------------------------------------------------
(* Properties *)

\* the position the message of the call carries, -1 when it carries none
ExtractedPosition ==
    IF MatchPosition(fnMessage) = Null THEN -1 ELSE ParseInt(MatchPosition(fnMessage).digits)

\* C1: in every rendered state the parsed value, the error message and the
\* highlight span are the ones derived from the current inputText.
C1_NoStaleResults ==
    /\ parsedJson = ParseEffect(inputText).parsedJson
    /\ error = ParseEffect(inputText).error
    /\ errorRange = ParseEffect(inputText).errorRange

\* C2: when the effects of a text change leave a parsed value, every container
\* of the displayed tree is in its initial state (root expanded, descendants
\* collapsed).
C2_FreshTreeAfterEdit ==
    [][(effectsPending /\ ~effectsPending' /\ parsedJson' # Null)
          => \A path \in DOMAIN collapsed' :
                IsCollapsible(ValueAt(parsedJson', path)) => collapsed'[path] = (Len(path) > 0)]_vars

\* the flag the node at path shows: its own when mounted, the initial one of a
\* node that mounts otherwise
ShownCollapsed(flags, path) == IsCollapsedAt(flags, path, Len(path))

\* C3: a toggle of the node at path leaves the collapse state of every other
\* node, and the text, error, highlight span and parsed value, as they were.
C3_ToggleIsLocal ==
    [][\A path \in DOMAIN collapsed :
          toggleCollapse(path) =>
             /\ \A other \in DOMAIN collapsed \ {path} :
                   ShownCollapsed(collapsed', other) = collapsed[other]
             /\ UNCHANGED <<inputText, parsedJson, error, errorRange>>]_vars

\* C4: in every reachable tree state, two toggles in a row of a collapsible node
\* give back the displayed content of the node and its subtree.
C4_DoubleToggleRestoresDisplay ==
    (~effectsPending /\ parsedJson # Null) =>
        \A path \in DOMAIN collapsed :
            IsCollapsible(ValueAt(parsedJson, path)) =>
                LET once == ToggleCollapse(collapsed, parsedJson, path)
                    twice == ToggleCollapse(once, parsedJson, path)
                IN Display(twice, path, ValueAt(parsedJson, path))
                   = Display(collapsed, path, ValueAt(parsedJson, path))

\* C5 as stated: whenever a position is extracted from the message, the call
\* returns a span.
C5_SpanWheneverPositionExtracted ==
    (fnDone /\ ExtractedPosition >= 0) => fnResult # Null

\* C5 as amended: the call returns Absent exactly when no position is extracted
\* or the extracted position is greater than the length of the text.
C5_AbsentIffNoAddressablePosition ==
    fnDone => (fnResult = Null <=> (ExtractedPosition < 0 \/ ExtractedPosition > Len(fnText)))

C5_Witness ==
    fnDone /\ ExtractedPosition = Len(fnText) /\ Len(fnText) > 0 /\ fnResult # Null

\* C6: every span returned satisfies 0 <= start <= end <= length(text).
C6_SpanWellFormed ==
    (fnDone /\ fnResult # Null) =>
        /\ 0 <= fnResult.start
        /\ fnResult.start <= fnResult.end
        /\ fnResult.end <= Len(fnText)

C6_Witness ==
    /\ fnDone
    /\ fnResult # Null
    /\ ~IncludesEndOfInput(fnMessage)
    /\ fnResult.start < ExtractedPosition
    /\ ExtractedPosition + 1 < fnResult.end
    /\ fnResult.end < Len(fnText)

\* C7 as stated: for the text {"a": and the unterminated-input message at
\* position 6 the span is {0, 6}.
C7_UnterminatedAtSix ==
    (fnDone /\ fnText = TextUnterminated /\ IncludesEndOfInput(fnMessage) /\ ExtractedPosition = 6)
        => fnResult = Range(0, 6)

\* C7 as amended: the text {"a": has 5 characters; for the unterminated-input
\* message at position 5 the span is {0, 5}, and at position 6 there is no span.
C7_UnterminatedAtFive ==
    (fnDone /\ fnText = TextUnterminated /\ IncludesEndOfInput(fnMessage)) =>
        /\ ExtractedPosition = 5 => fnResult = Range(0, 5)
        /\ ExtractedPosition = 6 => fnResult = Null

C7_Witness ==
    /\ fnDone
    /\ fnText = TextUnterminated
    /\ IncludesEndOfInput(fnMessage)
    /\ ExtractedPosition = 5
    /\ fnResult = Range(0, 5)

\* the indices below offset that hold a newline
NewlinesBefore(text, offset) == {i \in 0..(offset - 1) : CharAt(text, i) = NL}

\* C8: for 0 <= o <= length(T) the result is a LineColumn, its line 1 plus the
\* number of newlines before o and its column o minus the index after the last
\* newline before o (0 when none) plus 1; line >= 1, column >= 1, and
\* {1, o + 1} when no newline precedes o.
C8_LineColumn ==
    (fnDone /\ fnPosition <= Len(fnText)) =>
        LET before == NewlinesBefore(fnText, fnPosition)
            lineStart == IF before = {} THEN 0 ELSE Max(before) + 1
        IN /\ fnResult # Null
           /\ fnResult.line = 1 + Cardinality(before)
           /\ fnResult.column = fnPosition - lineStart + 1
           /\ fnResult.line >= 1
           /\ fnResult.column >= 1
           /\ before = {} => (fnResult.line = 1 /\ fnResult.column = fnPosition + 1)

C8_Witness ==
    /\ fnDone
    /\ fnPosition <= Len(fnText)
    /\ Cardinality(NewlinesBefore(fnText, fnPosition)) = 2
    /\ fnResult # Null
    /\ fnResult.line = 3
    /\ fnResult.column = 2

\* the keys and literal values of a document, in the order of its text
RECURSIVE DocumentItems(_, _)
DocumentItems(text, p) ==
    IF p >= Len(text) THEN <<>>
    ELSE LET c == CharAt(text, p)
         IN IF c = QUOTE
            THEN LET r == ScanString(text, p + 1, <<>>)
                     isKey == CharAt(text, SkipWhitespace(text, r.pos)) = ":"
                 IN <<Piece(IF isKey THEN "key" ELSE "literal", JsString(r.v))>>
                    \o DocumentItems(text, r.pos)
            ELSE IF IsDigit(c)
            THEN LET r == ParseNumber(text, p)
                 IN <<Piece("literal", r.v)>> \o DocumentItems(text, r.pos)
            ELSE IF c = "n" THEN <<Piece("literal", Null)>> \o DocumentItems(text, p + 4)
            ELSE IF c = "t" THEN <<Piece("literal", JsBoolean(TRUE))>> \o DocumentItems(text, p + 4)
            ELSE IF c = "f" THEN <<Piece("literal", JsBoolean(FALSE))>> \o DocumentItems(text, p + 5)
            ELSE DocumentItems(text, p + 1)

IsItem(piece) == piece.k \in {"key", "literal"}

\* every collapsible node of the displayed tree is mounted and expanded
AllExpanded ==
    \A path \in DOMAIN collapsed : IsCollapsible(ValueAt(parsedJson, path)) => ~collapsed[path]

\* the text is a valid document and the tree of its value is on display
ValidDocumentShown ==
    /\ ~effectsPending
    /\ ~IsBlank(inputText)
    /\ JsonParse(inputText).ok
    /\ parsedJson # Null

\* C9: with every collapsible node expanded, the tree of a valid document
\* displays the keys and literal values of the document, each once, in the
\* order of the document.
C9_DisplayFollowsDocument ==
    (ValidDocumentShown /\ AllExpanded) =>
        SelectSeq(Display(collapsed, <<>>, parsedJson), IsItem) = DocumentItems(inputText, 0)

\* the output panel: the tree, the empty-state placeholder, the error notice
ShowsTree == parsedJson # Null
ShowsPlaceholder == parsedJson = Null /\ error = Null
ShowsError == error # Null

\* C10: once the effects have run, a non-blank text that parses has its tree on
\* display, and neither the placeholder nor an error.
C10_ParsedTextShowsTree ==
    (~effectsPending /\ ~IsBlank(inputText) /\ JsonParse(inputText).ok) =>
        (ShowsTree /\ ~ShowsPlaceholder /\ ~ShowsError)

\* a List or Record with zero elements
IsEmptyContainer(nodeData) == (IsArray(nodeData) \/ IsObject(nodeData)) /\ ItemCount(nodeData) = 0

\* C11: in every reachable tree state, at every depth, a mounted List or Record
\* with zero elements displays the literal [] or {}, whatever its collapsed
\* flag, and its toggle is not on offer.
C11_EmptyContainerIsLeaf ==
    parsedJson # Null =>
        \A path \in DOMAIN collapsed :
            LET nodeData == ValueAt(parsedJson, path)
            IN IsEmptyContainer(nodeData) =>
                  /\ Display(collapsed, path, nodeData)
                        = <<Punct(IF IsArray(nodeData) THEN "[]" ELSE "{}")>>
                  /\ Display([collapsed EXCEPT ![path] = ~@], path, nodeData)
                        = Display(collapsed, path, nodeData)
                  /\ ~ENABLED toggleCollapse(path)

C11_Witness ==
    /\ ~effectsPending
    /\ parsedJson # Null
    /\ \E path \in DOMAIN collapsed :
          /\ Len(path) = 1
          /\ IsObject(ValueAt(parsedJson, path))
          /\ IsEmptyContainer(ValueAt(parsedJson, path))
          /\ collapsed[path]

\* path is a proper prefix of other: other names a node below the node at path
IsBelow(other, path) == Len(other) > Len(path) /\ SubSeq(other, 1, Len(path)) = path

\* C12: every non-empty container that a step mounts (first render, or render
\* again after its parent is expanded again) starts collapsed below the root
\* and expanded at the root; and no node below a collapsed container is
\* rendered, the container showing its summary alone.
C12_StartsCollapsedBelowRoot ==
    [][/\ \A path \in DOMAIN collapsed' \ DOMAIN collapsed :
             IsCollapsible(ValueAt(parsedJson', path)) => collapsed'[path] = (Len(path) > 0)
       /\ \A path \in DOMAIN collapsed' :
             LET nodeData == ValueAt(parsedJson', path)
             IN (IsCollapsible(nodeData) /\ collapsed'[path]) =>
                   /\ \A other \in DOMAIN collapsed' : ~IsBelow(other, path)
                   /\ Len(Display(collapsed', path, nodeData)) = 5]_vars

C12_Witness ==
    /\ ~effectsPending
    /\ parsedJson # Null
    /\ \E path \in DOMAIN collapsed :
          /\ Len(path) = 2
          /\ IsCollapsible(ValueAt(parsedJson, path))
          /\ collapsed[path]
          /\ ~collapsed[SubSeq(path, 1, 1)]
          /\ ~collapsed[<<>>]

\* the call is about a position of the text, outside the unterminated-input case
LocalizedCall ==
    /\ fnDone
    /\ ~IncludesEndOfInput(fnMessage)
    /\ ExtractedPosition >= 0
    /\ ExtractedPosition < Len(fnText)

\* C13: outside the unterminated-input case, for a position of the text whose
\* character is not a delimiter, the span is the maximal run of non-delimiters
\* that contains the position; {"a": bad} at position 6 gives {6, 9}.
C13_MaximalTokenRun ==
    (LocalizedCall /\ ~delimiters(CharAt(fnText, ExtractedPosition))) =>
        /\ fnResult # Null
        /\ fnResult.start <= ExtractedPosition
        /\ ExtractedPosition < fnResult.end
        /\ \A i \in fnResult.start..(fnResult.end - 1) : ~delimiters(CharAt(fnText, i))
        /\ fnResult.start = 0 \/ delimiters(CharAt(fnText, fnResult.start - 1))
        /\ fnResult.end = Len(fnText) \/ delimiters(CharAt(fnText, fnResult.end))
        /\ (fnText = TextBadToken /\ ExtractedPosition = 6) => fnResult = Range(6, 9)

C13_Witness ==
    /\ LocalizedCall
    /\ fnText = TextBadToken
    /\ ExtractedPosition = 7
    /\ fnResult = Range(6, 9)

\* C14: the degenerate-span fallback is never the return taken, for any text,
\* message and addressable position; and outside the unterminated-input case
\* every span for a position below the length of the text is non-empty and
\* contains the position.
C14_FallbackUnreachable ==
    /\ (fnDone /\ ExtractedPosition >= 0 /\ ExtractedPosition <= Len(fnText)) =>
          ReturnPath(fnText, fnMessage, ExtractedPosition) # "fallback"
    /\ LocalizedCall =>
          /\ fnResult # Null
          /\ fnResult.start <= ExtractedPosition
          /\ ExtractedPosition < fnResult.end

\* the delimiter return is taken where the two loops would not move
C14_Witness ==
    /\ LocalizedCall
    /\ ExpandStart(fnText, ExtractedPosition) = ExtractedPosition
    /\ ExpandEnd(fnText, ExtractedPosition) = ExtractedPosition
    /\ ReturnPath(fnText, fnMessage, ExtractedPosition) = "delimiter"
    /\ fnResult = Range(ExtractedPosition, ExtractedPosition + 1)

====
